---- MODULE Spec2Model ----
(***************************************************************************)
(* Video generation job of ehking/vi_m (Django app "videos").              *)
(*                                                                         *)
(* One GeneratedVideo row (db) is written by three generation routines:    *)
(*   gv    - services/video_generation.py  generate_video_for_instance     *)
(*   lyric - services/video_generation.py  generate_lyric_video_for_instance*)
(*   view  - views.py                      video_generate                  *)
(* Every routine works on an in-memory instance (att[p].mem) loaded from   *)
(* the row and persists it with save(update_fields=...).  The media        *)
(* library (moviepy) and the file system are the environment: a media call *)
(* either raises or returns, and the render may or may not leave a file.   *)
(*                                                                         *)
(* The row has the columns of models.GeneratedVideo that the routines      *)
(* write, plus style_prompt and prompt_used, and the job has the           *)
(* background_video, style and extra_prompt that forms.GeneratedVideoForm  *)
(* lists as model fields; every hasattr() probe of the service is true.    *)
(* last_error_at, updated_at and generation_time_ms are left out: no       *)
(* routine reads them.  Database errors are not modelled.                  *)
(* att[p].open is the set of media handles that are open, att[p].bound the *)
(* ones a local variable of the routine refers to.                         *)
(*                                                                         *)
(* Conventions                                                             *)
(*   - durations are in tenths of a second (2.5 s = 25); NoneDur is None   *)
(*   - an integer column that is NULL holds NoneInt                        *)
(*   - a text is a sequence of tokens; a token is a pair <<kind, arg>>;    *)
(*     the newline inserted by "\n".join is the token NL                   *)
(*   - f"{w}x{h}" is the triple <<w, "x", h>>; "" is <<>>                  *)
(***************************************************************************)
EXTENDS Integers, Sequences, FiniteSets, TLC

\* ---------------------------------------------------------------- bounds
MaxAttempts == 2

\* ------------------------------------------------------- program constants
NoneInt == -1
NoneDur == -1
DefaultDuration == 30
ProcessingProgressService == 0
ProcessingProgressLyric == 10
ProcessingProgressView == 0
DoneProgress == 100
FailProgress == 0
FallbackWidth == 1280
FallbackHeight == 720

\* ------------------------------------------------------- environment sets
Procs == {1, 2}
SeqProcs == {1}
Routines == {"gv", "lyric", "view"}
AudioDurs == {NoneDur, 0, 25, 50}
BgDurs == {NoneDur, 0, 30}
BgSizes == {<<1920, 1080>>}
RenderSizes == {11}
JobStyles == {"karaoke", "vaporwave"}

VARIABLES db, job, fs, att, attempts, writes, req, ai

vars == <<db, job, fs, att, attempts, writes, req, ai>>

\* ------------------------------------------------------------------ texts
NL == <<"\n", "">>
Line(kind, arg) == <<kind, arg>>
EmptyText == <<>>

RECURSIVE Join(_)
\* "\n".join(entries)
Join(entries) ==
    IF Len(entries) = 0 THEN <<>>
    ELSE IF Len(entries) = 1 THEN <<Head(entries)>>
    ELSE <<Head(entries), NL>> \o Join(Tail(entries))

\* _append_log(video, entries): returns the new generation_log
AppendLog(log, entries) ==
    IF Len(entries) = 0 THEN log
    ELSE IF Len(log) > 0 THEN log \o <<NL>> \o Join(entries)
    ELSE Join(entries)

HasLine(log, kind) == \E i \in 1..Len(log) : log[i][1] = kind
CountLine(log, kind) == Cardinality({i \in 1..Len(log) : log[i][1] = kind})

\* f"{int(width)}x{int(height)}" and f"{int(width)}:{int(height)}"
Fmt(w, sep, h) == <<w, sep, h>>
Res1280x720 == <<1280, "x", 720>>
Aspect16x9 == <<16, ":", 9>>

\* -------------------------------------------------------------- exceptions
NoExc == [kind |-> "none", message |-> "", code |-> ""]
VideoGenerationError(message, code) ==
    [kind |-> "VideoGenerationError", message |-> message, code |-> code]
OtherError(kind, message) == [kind |-> kind, message |-> message, code |-> ""]

MoviepyMissing == VideoGenerationError("MoviePy could not be loaded", "moviepy_missing")
MediaError == OtherError("Exception", "media call failed")
ImportFailed == OtherError("ImportError", "No module named moviepy")

\* ------------------------------------------------------------------ styles
StyleKeys == {"lyric_simple", "karaoke", "motion_graphic", "dark_emotional",
              "romantic", "rap_hiphop", "cyberpunk", "ai_surreal", "cinematic",
              "landscape", "party_edm", "ai_avatar"}

\* STYLE_DEFINITIONS, in table order; label and default prompt of an entry
\* are kept as tokens naming the entry
StyleKeySeq == <<"lyric_simple", "karaoke", "motion_graphic", "dark_emotional",
                 "romantic", "rap_hiphop", "cyberpunk", "ai_surreal", "cinematic",
                 "landscape", "party_edm", "ai_avatar">>

STYLE_DEFINITIONS ==
    [i \in 1..Len(StyleKeySeq) |->
        [key |-> StyleKeySeq[i], label |-> <<"label", StyleKeySeq[i]>>,
         default_prompt |-> <<"default_prompt", StyleKeySeq[i]>>]]

\* the empty dict
NoStyle == [key |-> "", label |-> <<>>, default_prompt |-> <<>>]
IsNoStyle(style) == style.key = "" /\ style.label = <<>>

\* first entry of the table with that key, {} when there is none
get_style_by_key(key) ==
    LET hits == {i \in 1..Len(STYLE_DEFINITIONS) : STYLE_DEFINITIONS[i].key = key}
    IN  IF hits = {} THEN NoStyle
        ELSE STYLE_DEFINITIONS[CHOOSE i \in hits : \A j \in hits : i <= j]

\* style.get("default_prompt", "")
get_default_prompt_for_style(key) ==
    LET style == get_style_by_key(key)
    IN  IF IsNoStyle(style) THEN <<>> ELSE style.default_prompt

\* style.get("label", key)
get_style_label_empty_for_unknown(key) ==
    LET style == get_style_by_key(key)
    IN  IF IsNoStyle(style) THEN <<>> ELSE style.label

get_style_label(key) ==
    LET style == get_style_by_key(key)
    IN  IF IsNoStyle(style) THEN <<"key", key>> ELSE style.label

PyOrTextSecond(a, b) == b
PyOrText(a, b) == IF a # <<>> THEN a ELSE b

build_final_prompt(video, j) ==
    <<get_style_label(j.style),
      PyOrText(video.style_prompt, get_default_prompt_for_style(j.style)),
      PyOrText(j.lyrics, <<"No lyrics provided.", "">>),
      PyOrText(j.extra_prompt, <<"No additional instructions.", "">>)>>

\* ------------------------------------------------------------- the record
JobFields == {"status", "generation_progress", "error_message", "error_code",
              "last_error_message", "video_file", "duration_seconds",
              "file_size_bytes", "resolution", "aspect_ratio",
              "generation_log", "style_prompt", "prompt_used"}

STATUS_CHOICES == {"draft", "pending", "processing", "ready", "failed", "archived"}

NewVideo ==
    [status |-> "draft", generation_progress |-> NoneInt, error_message |-> "",
     error_code |-> "", last_error_message |-> "", video_file |-> "",
     duration_seconds |-> NoneInt, file_size_bytes |-> NoneInt,
     resolution |-> <<>>, aspect_ratio |-> <<>>, generation_log |-> <<>>,
     style_prompt |-> <<>>, prompt_used |-> <<>>]

\* Model.save(update_fields=fields): only the named columns are written
SaveFields(row, video, fields) ==
    [f \in JobFields |-> IF f \in fields THEN video[f] ELSE row[f]]

\* ------------------------------------------------------ durations (python)
PyInt(d) == d \div 10
Or0(d) == IF d = NoneDur THEN 0 ELSE d
Truthy(d) == d # NoneDur /\ d # 0
PyOr(a, b) == IF Truthy(a) THEN a ELSE b
Min(a, b) == IF a <= b THEN a ELSE b

\* generate_video_for_instance: duration of the composition
GvDurationNoDefault(adur) == Or0(adur)
GvDuration(adur) == IF Or0(adur) <= 0 THEN DefaultDuration ELSE Or0(adur)

\* generate_lyric_video_for_instance: duration of the composition
LyDuration(bdur, adur) ==
    Or0(PyOr(PyOr(PyOr(Min(Or0(bdur), Or0(adur)), adur), bdur), 0))

\* video_generate: duration = audio_clip.duration or 0
VwDuration(adur) == Or0(PyOr(adur, 0))

\* generate_lyric_video_for_instance, line 324: if duration <= 0: raise
LyDurationInvalidNever(d) == FALSE
LyDurationInvalid(d) == d <= 0

\* ---------------------------------------------------- per-attempt locals
IdleAttempt ==
    [pc |-> "idle", routine |-> "none", mem |-> NewVideo, log_entries |-> <<>>,
     exc |-> NoExc, adur |-> NoneDur, bdur |-> NoneDur, duration |-> NoneDur,
     size |-> <<0, 0>>, open |-> {}, bound |-> {}, saves |-> 0,
     media_calls |-> 0, rendered |-> FALSE, pre_status |-> "draft",
     outcome |-> "none"]

FirstPc(routine) ==
    CASE routine = "gv" -> "gv_processing"
      [] routine = "lyric" -> "ly_prompt"
      [] routine = "view" -> "vw_processing"

InFlight(p) == att[p].pc \notin {"idle", "done"}

\* ----------------------------------------------------------------- Init
\* -------------------------------------------------------- the AI video job
\* an AIVideoJob row with its provider, the GeneratedVideo it refers to and
\* the locals of run_ai_video_job; no run has started yet
IdleAiJob ==
    [pc |-> "idle", status |-> "pending", error_message |-> "",
     request_payload |-> FALSE, response_raw |-> "", video |-> "none",
     provider_active |-> TRUE, server |-> "ok", sent |-> 0, exc |-> "",
     runs |-> 0]

\* no write request has been served yet
NoRequest ==
    [op |-> "none", code |-> 0, logged |-> FALSE, entry |-> <<>>,
     status |-> "", progress |-> [kind |-> "none", val |-> 0]]

Init ==
    /\ db = NewVideo
    /\ job \in [audio_ref : BOOLEAN, bg_ref : BOOLEAN, style : JobStyles,
                lyrics : {<<>>}, extra_prompt : {<<>>}]
    /\ fs = [audio |-> FALSE, bg |-> FALSE, gen |-> 0, view |-> 0]
    /\ att = [p \in Procs |-> IdleAttempt]
    /\ attempts = 0
    /\ writes = 0
    /\ req = NoRequest
    /\ ai = IdleAiJob

\* A caller loads the row and enters a routine.  Between attempts the input
\* files may appear or disappear; rendered outputs stay where they are.
StartAttempt(p, routine) ==
    /\ ~InFlight(p)
    /\ attempts + writes < MaxAttempts
    /\ attempts' = attempts + 1
    /\ \E ae \in BOOLEAN, be \in BOOLEAN :
         fs' = [fs EXCEPT !.audio = job.audio_ref /\ ae, !.bg = job.bg_ref /\ be]
    /\ att' = [att EXCEPT ![p] =
                 [IdleAttempt EXCEPT
                    !.pc = FirstPc(routine), !.routine = routine, !.mem = db,
                    !.pre_status = db.status,
                    !.log_entries = IF routine = "gv"
                                    THEN <<Line("Starting video generation", "")>>
                                    ELSE <<>>]]

Invoke(p, routine) ==
    /\ StartAttempt(p, routine)
    /\ UNCHANGED <<db, job, writes, req, ai>>

\* ------------------------------------------------- control-flow helpers
\* the finally blocks: close every clip a local variable refers to
Finally(a) == [a EXCEPT !.open = @ \ a.bound]

Raised(a, exc, handler) == [a EXCEPT !.exc = exc, !.pc = handler]

MediaCall(a) == [a EXCEPT !.media_calls = @ + 1]

Opened(a, h) == [a EXCEPT !.open = @ \cup {h}, !.bound = @ \cup {h}]

Logged(a, kind) == [a EXCEPT !.log_entries = Append(@, Line(kind, ""))]

Step(p, a) == att' = [att EXCEPT ![p] = a]

\* ------------------------------------------- _save_processing_state(video)
SaveProcessingStateKeepStatus(video) ==
    [video |-> [video EXCEPT !.generation_progress = ProcessingProgressService,
                             !.error_message = "",
                             !.error_code = "",
                             !.last_error_message = ""],
     update_fields |-> {"generation_progress", "error_message",
                        "error_code", "last_error_message"}]

SaveProcessingState(video) ==
    [video |-> [video EXCEPT !.status = "processing",
                             !.generation_progress = ProcessingProgressService,
                             !.error_message = "",
                             !.error_code = "",
                             !.last_error_message = ""],
     update_fields |-> {"status", "generation_progress", "error_message",
                        "error_code", "last_error_message"}]

\* ------------------------------------------ _save_failure_state(video, exc)
SaveFailureStateKeepStatus(video, exc) ==
    [video |-> [video EXCEPT !.error_message = exc.message,
                             !.last_error_message = exc.message,
                             !.generation_progress = FailProgress,
                             !.generation_log =
                                 AppendLog(@, <<Line("Generation failed", exc.message)>>)],
     update_fields |-> {"error_message", "last_error_message",
                        "generation_progress", "generation_log"}]

SaveFailureStateNoMessage(video, exc) ==
    [video |-> [video EXCEPT !.status = "failed",
                             !.last_error_message = exc.message,
                             !.generation_progress = FailProgress,
                             !.generation_log =
                                 AppendLog(@, <<Line("Generation failed", exc.message)>>)],
     update_fields |-> {"status", "last_error_message",
                        "generation_progress", "generation_log"}]

SaveFailureState(video, exc) ==
    [video |-> [video EXCEPT !.status = "failed",
                             !.error_message = exc.message,
                             !.last_error_message = exc.message,
                             !.generation_progress = FailProgress,
                             !.generation_log =
                                 AppendLog(@, <<Line("Generation failed", exc.message)>>)],
     update_fields |-> {"status", "error_message", "last_error_message",
                        "generation_progress", "generation_log"}]

\* ------------------------------------------- generate_video_for_instance
GvSaveProcessing(p) ==
    /\ att[p].pc = "gv_processing"
    /\ LET r == SaveProcessingState(att[p].mem) IN
         /\ Step(p, [att[p] EXCEPT !.mem = r.video, !.saves = @ + 1, !.pc = "gv_load"])
         /\ db' = SaveFields(db, r.video, r.update_fields)
    /\ UNCHANGED <<job, fs, attempts, writes, req, ai>>

GvLoadMoviepy(p) ==
    /\ att[p].pc = "gv_load"
    /\ \/ Step(p, Raised(att[p], MoviepyMissing, "gv_except"))
       \/ Step(p, [att[p] EXCEPT !.pc = "gv_validate"])
    /\ UNCHANGED <<db, job, fs, attempts, writes, req, ai>>

GvValidate(p) ==
    /\ att[p].pc = "gv_validate"
    /\ IF ~job.audio_ref \/ ~fs.audio
       THEN Step(p, Raised(att[p],
                    VideoGenerationError("Audio file is missing for this video.",
                                         "audio_missing"), "gv_except"))
       ELSE Step(p, [Logged(att[p], "Loading media clips") EXCEPT !.pc = "gv_audio"])
    /\ UNCHANGED <<db, job, fs, attempts, writes, req, ai>>

GvAudioClip(p) ==
    /\ att[p].pc = "gv_audio"
    /\ \/ Step(p, Raised(Finally(MediaCall(att[p])), MediaError, "gv_except"))
       \/ \E d \in AudioDurs :
            Step(p, [Opened(MediaCall(att[p]), "audio") EXCEPT
                       !.adur = d, !.duration = GvDuration(d), !.pc = "gv_bg"])
    /\ UNCHANGED <<db, job, fs, attempts, writes, req, ai>>

\* line 176: if not os.path.exists(bg_path)
GvBackgroundMissingUnchecked(j, files) == FALSE
GvBackgroundMissing(j, files) == j.bg_ref /\ ~files.bg

GvBackground(p) ==
    /\ att[p].pc = "gv_bg"
    /\ IF job.bg_ref
       THEN IF GvBackgroundMissing(job, fs)
            THEN Step(p, Raised(Finally(att[p]),
                         VideoGenerationError("Background video is missing for this video.",
                                              "background_missing"), "gv_except"))
            ELSE \/ Step(p, Raised(Finally(MediaCall(att[p])), MediaError, "gv_except"))
                 \/ Step(p, Raised(Finally([MediaCall(att[p]) EXCEPT !.open = @ \cup {"bg"}]),
                                   MediaError, "gv_except"))
                 \/ \E sz \in BgSizes, bd \in BgDurs :
                      Step(p, [Opened(MediaCall(att[p]), "bg") EXCEPT
                                 !.size = sz, !.bdur = bd, !.pc = "gv_write"])
       ELSE \/ Step(p, Raised(Finally(MediaCall(att[p])), MediaError, "gv_except"))
            \/ Step(p, [Opened(MediaCall(att[p]), "bg") EXCEPT
                          !.size = <<FallbackWidth, FallbackHeight>>, !.pc = "gv_write"])
    /\ UNCHANGED <<db, job, fs, attempts, writes, req, ai>>

GvWrite(p) ==
    /\ att[p].pc = "gv_write"
    /\ LET a == Logged(Opened(att[p], "final"), "Writing combined video") IN
         \/ /\ Step(p, Raised(Finally(MediaCall(a)), MediaError, "gv_except"))
            /\ UNCHANGED fs
         \/ /\ Step(p, [Finally(MediaCall(a)) EXCEPT !.rendered = TRUE, !.pc = "gv_finish"])
            /\ \/ \E sz \in RenderSizes : fs' = [fs EXCEPT !.gen = sz]
               \/ UNCHANGED fs
    /\ UNCHANGED <<db, job, attempts, writes, req, ai>>

\* lines 206-246: the fields of a successful attempt
GvSuccessState(video, duration, size, out_size, log_entries) ==
    [video EXCEPT
       !.video_file = "generated_videos/generated_<id>.mp4",
       !.duration_seconds = PyInt(duration),
       !.status = "ready",
       !.last_error_message = "",
       !.generation_progress = DoneProgress,
       !.file_size_bytes = out_size,
       !.resolution = IF size[1] # 0 /\ size[2] # 0
                      THEN Fmt(size[1], "x", size[2]) ELSE @,
       !.aspect_ratio = IF size[1] # 0 /\ size[2] # 0
                        THEN Fmt(size[1], ":", size[2]) ELSE @,
       !.generation_log =
           AppendLog(@, Append(log_entries,
                               Line("Video generation completed successfully.", "")))]

GvSuccessFieldsNoProgress ==
    {"video_file", "duration_seconds", "status", "last_error_message",
     "file_size_bytes", "resolution", "aspect_ratio", "generation_log"}

GvSuccessFieldsWithErrorMessage ==
    {"video_file", "duration_seconds", "status", "last_error_message",
     "generation_progress", "file_size_bytes", "resolution", "aspect_ratio",
     "generation_log", "error_message"}

GvSuccessFieldsNoLog ==
    {"video_file", "duration_seconds", "status", "last_error_message",
     "generation_progress", "file_size_bytes", "resolution", "aspect_ratio"}

GvSuccessFields ==
    {"video_file", "duration_seconds", "status", "last_error_message",
     "generation_progress", "file_size_bytes", "resolution", "aspect_ratio",
     "generation_log"}

GvFinish(p) ==
    /\ att[p].pc = "gv_finish"
    /\ IF fs.gen = 0
       THEN /\ Step(p, Raised(att[p],
                       VideoGenerationError("Generated video file was not created.", ""),
                       "gv_except"))
            /\ UNCHANGED db
       ELSE LET v == GvSuccessState(att[p].mem, att[p].duration, att[p].size,
                                    fs.gen, att[p].log_entries) IN
              /\ db' = SaveFields(db, v, GvSuccessFields)
              /\ Step(p, [Logged(Logged(att[p],
                                         "Video generation completed successfully."),
                                  "Video generation succeeded") EXCEPT
                            !.mem = v, !.saves = @ + 1, !.pc = "done",
                            !.outcome = "returned"])
    /\ UNCHANGED <<job, fs, attempts, writes, req, ai>>

\* lines 258 and 264: return video
GvOutcomeReraise == "raised"
GvOutcomeOnError == "returned"

\* both except clauses (lines 253-258 and 259-264) run the same statements
GvExcept(p) ==
    /\ att[p].pc = "gv_except"
    /\ LET entries == Append(att[p].log_entries,
                             Line("Generation failed", att[p].exc.message))
           logged == [att[p].mem EXCEPT !.generation_log = AppendLog(@, entries)]
           r == SaveFailureState(logged, att[p].exc)
       IN /\ db' = SaveFields(db, r.video, r.update_fields)
          /\ Step(p, [att[p] EXCEPT !.log_entries = entries, !.mem = r.video,
                                    !.saves = @ + 1, !.pc = "done",
                                    !.outcome = GvOutcomeOnError])
    /\ UNCHANGED <<job, fs, attempts, writes, req, ai>>

GenerateVideoForInstance(p) ==
    \/ GvSaveProcessing(p)
    \/ GvLoadMoviepy(p)
    \/ GvValidate(p)
    \/ GvAudioClip(p)
    \/ GvBackground(p)
    \/ GvWrite(p)
    \/ GvFinish(p)
    \/ GvExcept(p)

\* ------------------------------------ generate_lyric_video_for_instance
\* lines 277-280
LyPromptState(video, j) ==
    LET v == [video EXCEPT !.style_prompt =
                 IF @ = <<>> THEN get_default_prompt_for_style(j.style) ELSE @]
    IN [v EXCEPT !.prompt_used = build_final_prompt(v, j)]

LyPromptSave(p) ==
    /\ att[p].pc = "ly_prompt"
    /\ LET v == LyPromptState(att[p].mem, job) IN
         /\ db' = SaveFields(db, v, {"style_prompt", "prompt_used"})
         /\ Step(p, [att[p] EXCEPT !.mem = v, !.saves = @ + 1, !.pc = "ly_processing"])
    /\ UNCHANGED <<job, fs, attempts, writes, req, ai>>

\* lines 282-286
LyProcessingState(video) ==
    [video EXCEPT !.status = "processing",
                  !.generation_progress = ProcessingProgressLyric,
                  !.error_message = "",
                  !.last_error_message = ""]

LyProcessingFields ==
    {"status", "generation_progress", "error_message", "last_error_message"}

LyProcessingSave(p) ==
    /\ att[p].pc = "ly_processing"
    /\ LET v == LyProcessingState(att[p].mem) IN
         /\ db' = SaveFields(db, v, LyProcessingFields)
         /\ Step(p, [att[p] EXCEPT !.mem = v, !.saves = @ + 1, !.pc = "ly_validate"])
    /\ UNCHANGED <<job, fs, attempts, writes, req, ai>>

\* lines 288-303: the first failing check decides the error
LyValidationError(j, files) ==
    IF ~j.audio_ref
    THEN VideoGenerationError("Audio file is missing for this video.", "audio_missing")
    ELSE IF ~j.bg_ref
    THEN VideoGenerationError("Background video is required for lyric generation.",
                              "background_missing")
    ELSE IF ~files.audio
    THEN VideoGenerationError("Audio file not found on disk.", "audio_missing")
    ELSE IF ~files.bg
    THEN VideoGenerationError("Background video file not found on disk.",
                              "background_missing")
    ELSE NoExc

LyValidate(p) ==
    /\ att[p].pc = "ly_validate"
    /\ LET e == LyValidationError(job, fs) IN
         IF e # NoExc
         THEN Step(p, Raised(att[p], e, "ly_except"))
         ELSE Step(p, [Logged(Logged(att[p], "Loading audio"),
                              "Loading background video") EXCEPT !.pc = "ly_import"])
    /\ UNCHANGED <<db, job, fs, attempts, writes, req, ai>>

LyImport(p) ==
    /\ att[p].pc = "ly_import"
    /\ \/ Step(p, Raised(att[p], ImportFailed, "ly_except"))
       \/ Step(p, [att[p] EXCEPT !.pc = "ly_audio"])
    /\ UNCHANGED <<db, job, fs, attempts, writes, req, ai>>

LyAudioClip(p) ==
    /\ att[p].pc = "ly_audio"
    /\ \/ Step(p, Raised(Finally(MediaCall(att[p])), MediaError, "ly_except"))
       \/ \E d \in AudioDurs :
            Step(p, [Opened(MediaCall(att[p]), "audio") EXCEPT
                       !.adur = d, !.pc = "ly_bg"])
    /\ UNCHANGED <<db, job, fs, attempts, writes, req, ai>>

\* lines 320-325
LyBgClip(p) ==
    /\ att[p].pc = "ly_bg"
    /\ \/ Step(p, Raised(Finally(MediaCall(att[p])), MediaError, "ly_except"))
       \/ Step(p, Raised(Finally([MediaCall(att[p]) EXCEPT !.open = @ \cup {"bg"}]),
                         MediaError, "ly_except"))
       \/ \E bd \in BgDurs :
            LET a == [Opened(MediaCall(att[p]), "bg") EXCEPT
                        !.bdur = bd, !.duration = LyDuration(bd, att[p].adur),
                        !.size = <<FallbackWidth, FallbackHeight>>]
            IN IF LyDurationInvalid(a.duration)
               THEN Step(p, Raised(Finally(a),
                            VideoGenerationError(
                                "Unable to determine duration for video composition.",
                                "duration_invalid"), "ly_except"))
               ELSE Step(p, [a EXCEPT !.pc = "ly_compose"])
    /\ UNCHANGED <<db, job, fs, attempts, writes, req, ai>>

\* lines 327-365: TextClip, CompositeVideoClip, write_videofile, finally
LyCompose(p) ==
    /\ att[p].pc = "ly_compose"
    /\ \/ /\ Step(p, Raised(Finally(att[p]), MediaError, "ly_except"))
          /\ UNCHANGED fs
       \/ LET a == Logged(Opened([att[p] EXCEPT !.open = @ \cup {"text"}], "final"),
                          "Writing lyric video")
          IN \/ /\ Step(p, Raised(Finally(MediaCall(a)), MediaError, "ly_except"))
                /\ UNCHANGED fs
             \/ /\ Step(p, [Finally(MediaCall(a)) EXCEPT
                              !.rendered = TRUE, !.pc = "ly_finish"])
                /\ \/ \E sz \in RenderSizes : fs' = [fs EXCEPT !.gen = sz]
                   \/ UNCHANGED fs
    /\ UNCHANGED <<db, job, attempts, writes, req, ai>>

\* lines 370-379
LySuccessState(video, duration, out_size, log_entries) ==
    [video EXCEPT
       !.video_file = "generated_videos/generated_<id>.mp4",
       !.file_size_bytes = out_size,
       !.duration_seconds = PyInt(duration),
       !.resolution = Res1280x720,
       !.aspect_ratio = Aspect16x9,
       !.status = "ready",
       !.generation_progress = DoneProgress,
       !.generation_log = AppendLog(@, log_entries)]

LySuccessFields ==
    {"video_file", "file_size_bytes", "duration_seconds", "resolution",
     "aspect_ratio", "status", "generation_progress", "generation_log"}

LyFinish(p) ==
    /\ att[p].pc = "ly_finish"
    /\ IF fs.gen = 0
       THEN /\ Step(p, Raised(att[p],
                       VideoGenerationError("Lyric video file was not created.",
                                            "output_missing"), "ly_except"))
            /\ UNCHANGED db
       ELSE LET v == LySuccessState(att[p].mem, att[p].duration, fs.gen,
                                    att[p].log_entries) IN
              /\ db' = SaveFields(db, v, LySuccessFields)
              /\ Step(p, [att[p] EXCEPT !.mem = v, !.saves = @ + 1, !.pc = "done",
                                        !.outcome = "returned"])
    /\ UNCHANGED <<job, fs, attempts, writes, req, ai>>

\* lines 395-412: persist the failure, then re-raise
LyFailureState(video, exc, entries) ==
    [video EXCEPT !.generation_log = AppendLog(@, entries),
                  !.status = "failed",
                  !.error_message = exc.message,
                  !.last_error_message = exc.message,
                  !.generation_progress = FailProgress]

LyFailureFields ==
    {"status", "error_message", "last_error_message", "generation_progress",
     "generation_log"}

\* line 412: raise
LyOutcomeOnError == "raised"

LyExcept(p) ==
    /\ att[p].pc = "ly_except"
    /\ LET entries == Append(att[p].log_entries,
                             Line("Generation failed", att[p].exc.message))
           v == LyFailureState(att[p].mem, att[p].exc, entries)
       IN /\ db' = SaveFields(db, v, LyFailureFields)
          /\ Step(p, [att[p] EXCEPT !.log_entries = entries, !.mem = v,
                                    !.saves = @ + 1, !.pc = "done",
                                    !.outcome = LyOutcomeOnError])
    /\ UNCHANGED <<job, fs, attempts, writes, req, ai>>

GenerateLyricVideoForInstance(p) ==
    \/ LyPromptSave(p)
    \/ LyProcessingSave(p)
    \/ LyValidate(p)
    \/ LyImport(p)
    \/ LyAudioClip(p)
    \/ LyBgClip(p)
    \/ LyCompose(p)
    \/ LyFinish(p)
    \/ LyExcept(p)

\* ------------------------------------------------- views.video_generate
\* lines 208-211
VwProcessingState(video) ==
    [video EXCEPT !.status = "processing", !.error_message = "",
                  !.generation_progress = ProcessingProgressView]

VwProcessingFields == {"status", "error_message", "generation_progress"}

VwProcessingSave(p) ==
    /\ att[p].pc = "vw_processing"
    /\ LET v == VwProcessingState(att[p].mem) IN
         /\ db' = SaveFields(db, v, VwProcessingFields)
         /\ Step(p, [att[p] EXCEPT !.mem = v, !.saves = @ + 1, !.pc = "vw_validate"])
    /\ UNCHANGED <<job, fs, attempts, writes, req, ai>>

\* lines 214-218
VwValidate(p) ==
    /\ att[p].pc = "vw_validate"
    /\ IF ~job.audio_ref
       THEN Step(p, Raised(att[p],
                    OtherError("ValueError", "Audio file is missing for this track."),
                    "vw_except"))
       ELSE IF ~fs.audio
       THEN Step(p, Raised(att[p],
                    OtherError("ValueError",
                               "Audio file path is invalid or the file does not exist."),
                    "vw_except"))
       ELSE Step(p, [att[p] EXCEPT !.pc = "vw_import"])
    /\ UNCHANGED <<db, job, fs, attempts, writes, req, ai>>

\* lines 220-228
VwImport(p) ==
    /\ att[p].pc = "vw_import"
    /\ \/ Step(p, Raised(att[p], ImportFailed, "vw_except"))
       \/ Step(p, [att[p] EXCEPT !.pc = "vw_audio"])
    /\ UNCHANGED <<db, job, fs, attempts, writes, req, ai>>

\* lines 230-232: the with statement owns the audio clip
VwAudioClip(p) ==
    /\ att[p].pc = "vw_audio"
    /\ \/ Step(p, Raised(Finally(MediaCall(att[p])), MediaError, "vw_except"))
       \/ \E d \in AudioDurs :
            Step(p, [Opened(MediaCall(att[p]), "audio") EXCEPT
                       !.adur = d, !.duration = VwDuration(d), !.pc = "vw_compose"])
    /\ UNCHANGED <<db, job, fs, attempts, writes, req, ai>>

\* lines 234-267: clips are closed by hand after the render only
VwCompose(p) ==
    /\ att[p].pc = "vw_compose"
    /\ \/ /\ Step(p, Raised(Finally(MediaCall(att[p])), MediaError, "vw_except"))
          /\ UNCHANGED fs
       \/ LET a == [MediaCall(att[p]) EXCEPT
                      !.open = @ \cup {"bg", "text", "final"},
                      !.size = <<FallbackWidth, FallbackHeight>>]
          IN \/ /\ Step(p, Raised(Finally(MediaCall(a)), MediaError, "vw_except"))
                /\ UNCHANGED fs
             \/ /\ Step(p, [Finally(MediaCall(a)) EXCEPT
                              !.open = {}, !.rendered = TRUE, !.pc = "vw_finish"])
                /\ \/ \E sz \in RenderSizes : fs' = [fs EXCEPT !.view = sz]
                   \/ UNCHANGED fs
    /\ UNCHANGED <<db, job, attempts, writes, req, ai>>

\* lines 269-273
VwSuccessState(video, duration, out_size) ==
    [video EXCEPT
       !.video_file = "videos/generated_<pk>.mp4",
       !.duration_seconds = PyInt(duration),
       !.file_size_bytes = IF out_size # 0 THEN out_size ELSE NoneInt,
       !.generation_progress = DoneProgress,
       !.status = "ready"]

VwSuccessFields ==
    {"video_file", "duration_seconds", "file_size_bytes", "generation_progress",
     "status"}

VwFinish(p) ==
    /\ att[p].pc = "vw_finish"
    /\ LET v == VwSuccessState(att[p].mem, att[p].duration, fs.view) IN
         /\ db' = SaveFields(db, v, VwSuccessFields)
         /\ Step(p, [att[p] EXCEPT !.mem = v, !.saves = @ + 1, !.pc = "done",
                                   !.outcome = "returned"])
    /\ UNCHANGED <<job, fs, attempts, writes, req, ai>>

\* lines 291-296
VwFailureState(video, exc) ==
    [video EXCEPT !.status = "failed", !.error_message = exc.message,
                  !.generation_progress = FailProgress]

VwFailureFields == {"status", "error_message", "generation_progress"}

VwExcept(p) ==
    /\ att[p].pc = "vw_except"
    /\ LET v == VwFailureState(att[p].mem, att[p].exc) IN
         /\ db' = SaveFields(db, v, VwFailureFields)
         /\ Step(p, [att[p] EXCEPT !.mem = v, !.saves = @ + 1, !.pc = "done",
                                   !.outcome = "returned"])
    /\ UNCHANGED <<job, fs, attempts, writes, req, ai>>

VideoGenerateView(p) ==
    \/ VwProcessingSave(p)
    \/ VwValidate(p)
    \/ VwImport(p)
    \/ VwAudioClip(p)
    \/ VwCompose(p)
    \/ VwFinish(p)
    \/ VwExcept(p)

Next ==
    \E p \in SeqProcs :
        \/ \E r \in Routines : Invoke(p, r)
        \/ GenerateVideoForInstance(p)
        \/ GenerateLyricVideoForInstance(p)
        \/ VideoGenerateView(p)

Spec == Init /\ [][Next]_vars

\* ------------------------------------------------ other writers of the row
ServiceOutput == "generated_videos/generated_<id>.mp4"
ViewOutput == "videos/generated_<pk>.mp4"

\* values a client can send for generation_progress: nothing, an integer
\* (also as a numeric string) or text that int() rejects
ProgressInputs ==
    {[kind |-> "none", val |-> 0], [kind |-> "int", val |-> 40],
     [kind |-> "int", val |-> 150], [kind |-> "int", val |-> -5],
     [kind |-> "text", val |-> 0]}
StatusInputs == {"", "pending", "bogus"}
ErrorInputs ==
    {[message |-> "", code |-> ""],
     [message |-> "worker error", code |-> "render_error"]}
LogInputs ==
    {[given |-> FALSE, text |-> <<>>],
     [given |-> TRUE, text |-> <<Line("worker note", "")>>]}
FileInputs == {"", ServiceOutput}

Max(a, b) == IF a >= b THEN a ELSE b

DEFAULT_PROGRESS_BY_STATUS(status) ==
    CASE status = "draft" -> 0
      [] status = "pending" -> 25
      [] status = "processing" -> 75
      [] status = "ready" -> 100
      [] status = "archived" -> 100
      [] OTHER -> NoneInt

\* max(0, min(100, int(progress_value)))
ClampProgressUnclamped(v) == v
ClampProgress(v) == Max(0, Min(100, v))

\* f"{video.generation_log}\n{log_entry}" or the entry alone on an empty log
ApiAppendLogNoSeparator(log, text) == log \o text
ApiAppendLog(log, text) == IF log # <<>> THEN log \o <<NL>> \o text ELSE text

\* GeneratedVideoViewSet.update_status: the instance after the assignments,
\* the update_fields list and the response code.  Text that is no integer
\* returns 400 before the save.
UpdateStatusApply(video, data) ==
    LET given == data.status # ""
        dflt == DEFAULT_PROGRESS_BY_STATUS(data.status)
        useDefault == given /\ data.progress.kind = "none" /\ dflt # NoneInt
        v1 == IF given THEN [video EXCEPT !.status = data.status] ELSE video
        v2 == IF useDefault THEN [v1 EXCEPT !.generation_progress = dflt] ELSE v1
        v3 == [v2 EXCEPT !.error_message = data.error.message,
                         !.error_code = data.error.code]
        f3 == (IF given THEN {"status"} ELSE {})
                \cup (IF useDefault THEN {"generation_progress"} ELSE {})
                \cup {"error_message", "error_code"}
    IN  IF data.progress.kind = "text"
        THEN [video |-> v3, update_fields |-> {}, code |-> 400]
        ELSE LET v4 == IF data.progress.kind = "int"
                       THEN [v3 EXCEPT !.generation_progress =
                                           ClampProgress(data.progress.val)]
                       ELSE v3
                 v5 == IF data.log.given
                       THEN [v4 EXCEPT !.generation_log =
                                           ApiAppendLog(@, data.log.text)]
                       ELSE v4
                 v6 == IF data.file # "" THEN [v5 EXCEPT !.video_file = data.file]
                       ELSE v5
                 f6 == f3
                         \cup (IF data.progress.kind = "int"
                               THEN {"generation_progress"} ELSE {})
                         \cup (IF data.log.given THEN {"generation_log"} ELSE {})
                         \cup (IF data.file # "" THEN {"video_file"} ELSE {})
             IN  [video |-> v6, update_fields |-> f6, code |-> 200]

\* A request is served between generation attempts; the locals of the last
\* attempt are gone by then.
Quiescent == \A p \in Procs : ~InFlight(p)

UpdateStatus ==
    /\ Quiescent
    /\ attempts + writes < MaxAttempts
    /\ \E st \in StatusInputs, pr \in ProgressInputs, er \in ErrorInputs,
          lg \in LogInputs, fl \in FileInputs :
         LET data == [status |-> st, progress |-> pr, error |-> er,
                      log |-> lg, file |-> fl]
             r == UpdateStatusApply(db, data)
             logged == r.code = 200 /\ lg.given
         IN  /\ db' = SaveFields(db, r.video, r.update_fields)
             /\ req' = [op |-> "update_status", code |-> r.code,
                        logged |-> logged,
                        entry |-> IF logged THEN lg.text ELSE <<>>,
                        status |-> st, progress |-> pr]
    /\ writes' = writes + 1
    /\ att' = [p \in Procs |-> IdleAttempt]
    /\ UNCHANGED <<job, fs, attempts, ai>>

\* the status field of both model forms is a choice field over STATUS_CHOICES
StatusChoiceValid(status) == status \in STATUS_CHOICES

\* GeneratedVideoStatusForm.clean_generation_progress
clean_generation_progress(progress) ==
    IF progress.kind = "none" THEN [ok |-> TRUE, value |-> NoneInt]
    ELSE IF progress.kind = "text" THEN [ok |-> FALSE, value |-> NoneInt]
    ELSE IF progress.val < 0 \/ progress.val > 100
         THEN [ok |-> FALSE, value |-> NoneInt]
         ELSE [ok |-> TRUE, value |-> progress.val]

\* GeneratedVideoDetailView.post: a valid GeneratedVideoStatusForm is saved
\* and the client redirected, an invalid one is rendered again.  The form is
\* submitted with the displayed values of prompt_used and video_file.
StatusFormPost ==
    /\ Quiescent
    /\ attempts + writes < MaxAttempts
    /\ \E st \in StatusInputs, pr \in ProgressInputs,
          msg \in {"", "operator note"} :
         LET cp == clean_generation_progress(pr)
             valid == StatusChoiceValid(st) /\ cp.ok
         IN  /\ db' = IF valid
                      THEN [db EXCEPT !.status = st,
                                      !.generation_progress = cp.value,
                                      !.error_message = msg]
                      ELSE db
             /\ req' = [NoRequest EXCEPT !.op = "status_form",
                                         !.code = IF valid THEN 302 ELSE 200]
    /\ writes' = writes + 1
    /\ att' = [p \in Procs |-> IdleAttempt]
    /\ UNCHANGED <<job, fs, attempts, ai>>

\* GeneratedVideoForm.clean_status: an empty status becomes the model default
clean_status(status) == IF status = "" THEN "draft" ELSE status

\* forms.IntegerField of the model form: any integer passes, the 0..100 range
\* is only a widget attribute
VideoFormProgress(progress) ==
    IF progress.kind = "none" THEN [ok |-> TRUE, value |-> NoneInt]
    ELSE IF progress.kind = "text" THEN [ok |-> FALSE, value |-> NoneInt]
    ELSE [ok |-> TRUE, value |-> progress.val]

FileExists(video_file, files) ==
    \/ video_file = ServiceOutput /\ files.gen > 0
    \/ video_file = ViewOutput /\ files.view > 0

FileSize(video_file, files) ==
    IF video_file = ServiceOutput THEN files.gen ELSE files.view

\* GeneratedVideoUpdateView._update_file_metadata
UpdateFileMetadata(video, files) ==
    IF video.video_file # "" /\ FileExists(video.video_file, files)
    THEN [video EXCEPT
            !.file_size_bytes = FileSize(video.video_file, files),
            !.duration_seconds = IF @ = NoneInt THEN 0 ELSE @]
    ELSE video

\* GeneratedVideoUpdateView with GeneratedVideoForm: status, progress, log and
\* error code are edited, the other fields are submitted as displayed.
VideoFormPost ==
    /\ Quiescent
    /\ attempts + writes < MaxAttempts
    /\ \E st \in StatusInputs, pr \in ProgressInputs,
          code \in {"", "manual"},
          lg \in {db.generation_log, <<Line("edited by hand", "")>>} :
         LET cp == VideoFormProgress(pr)
             valid == (st = "" \/ StatusChoiceValid(st)) /\ cp.ok
             v == [db EXCEPT !.status = clean_status(st),
                             !.generation_progress = cp.value,
                             !.error_code = code,
                             !.generation_log = lg]
         IN  /\ db' = IF valid THEN UpdateFileMetadata(v, fs) ELSE db
             /\ req' = [NoRequest EXCEPT !.op = "video_form",
                                         !.code = IF valid THEN 302 ELSE 200]
    /\ writes' = writes + 1
    /\ att' = [p \in Procs |-> IdleAttempt]
    /\ UNCHANGED <<job, fs, attempts, ai>>

NextWrites ==
    \/ Next
    \/ UpdateStatus
    \/ StatusFormPost
    \/ VideoFormPost

\* ------------------------------------------------------- the generate URL
GenerateRoute == "videos/<int:pk>/generate/"

\* urls.py, the patterns of the video pages in file order
urlpatterns ==
    <<[route |-> "videos/", view |-> "GeneratedVideoListView"],
      [route |-> "videos/create/", view |-> "GeneratedVideoCreateView"],
      [route |-> GenerateRoute, view |-> "generate_video"],
      [route |-> "videos/<int:pk>/", view |-> "GeneratedVideoDetailView"],
      [route |-> GenerateRoute, view |-> "video_generate"],
      [route |-> "videos/<int:pk>/edit/", view |-> "GeneratedVideoUpdateView"],
      [route |-> GenerateRoute, view |-> "generate_ai_video"],
      [route |-> "videos/<int:pk>/delete/", view |-> "GeneratedVideoDeleteView"]>>

\* the URL resolver takes the first pattern that matches
Resolve(route) ==
    LET hits == {i \in 1..Len(urlpatterns) : urlpatterns[i].route = route}
    IN  urlpatterns[CHOOSE i \in hits : \A j \in hits : i <= j].view

\* GeneratedVideo defines no generate_ai_video method: getattr(...) is None
\* and views.generate_video starts no generation
ModelHasGenerator == FALSE

\* POST videos/<pk>/generate/.  views.generate_video answers with the
\* redirect to the detail page, at once for a job in processing and otherwise
\* after calling the model's generator if there is one; views.generate_ai_video
\* and views.video_generate enter their routine.
PostGenerate(p) ==
    /\ Quiescent
    /\ LET view == Resolve(GenerateRoute) IN
         IF view = "generate_video"
         THEN IF db.status # "processing" /\ ModelHasGenerator
              THEN /\ StartAttempt(p, "gv")
                   /\ req' = [NoRequest EXCEPT !.op = "post_generate", !.code = 302]
                   /\ UNCHANGED <<db, job, writes, ai>>
              ELSE /\ attempts + writes < MaxAttempts
                   /\ writes' = writes + 1
                   /\ req' = [NoRequest EXCEPT !.op = "post_generate", !.code = 302]
                   /\ att' = [q \in Procs |-> IdleAttempt]
                   /\ UNCHANGED <<db, job, fs, attempts, ai>>
         ELSE /\ StartAttempt(p, IF view = "generate_ai_video" THEN "gv" ELSE "view")
              /\ req' = [NoRequest EXCEPT !.op = "post_generate"]
              /\ UNCHANGED <<db, job, writes, ai>>

\* create_sample_video._try_load_moviepy: a failed import is reported as a
\* warning on stdout and the command goes on with placeholders
MoviepyUnavailableWarning ==
    <<Line("MoviePy is unavailable; sample assets will use lightweight placeholders.", "")>>

try_load_moviepy(importable) ==
    IF importable THEN [editor |-> TRUE, stdout |-> <<>>, command_error |-> FALSE]
    ELSE [editor |-> FALSE, stdout |-> MoviepyUnavailableWarning,
          command_error |-> FALSE]

\* manage.py create_sample_video: Command.handle loads moviepy, makes sure the
\* sample audio and background files and records exist, attaches them to the
\* sample video and calls generate_video_for_instance on it.
CreateSampleVideo(p) ==
    /\ Quiescent
    /\ attempts + writes < MaxAttempts
    /\ \E importable \in BOOLEAN :
         LET loaded == try_load_moviepy(importable) IN
           /\ req' = [NoRequest EXCEPT !.op = "create_sample_video",
                                       !.code = IF loaded.command_error THEN 1 ELSE 0,
                                       !.entry = loaded.stdout]
           /\ IF loaded.command_error
              THEN /\ writes' = writes + 1
                   /\ att' = [q \in Procs |-> IdleAttempt]
                   /\ UNCHANGED <<db, job, fs, attempts, ai>>
              ELSE /\ job' = [job EXCEPT !.audio_ref = TRUE, !.bg_ref = TRUE]
                   /\ fs' = [fs EXCEPT !.audio = TRUE, !.bg = TRUE]
                   /\ attempts' = attempts + 1
                   /\ att' = [att EXCEPT ![p] =
                                [IdleAttempt EXCEPT
                                   !.pc = FirstPc("gv"), !.routine = "gv",
                                   !.mem = db, !.pre_status = db.status,
                                   !.log_entries =
                                       <<Line("Starting video generation", "")>>]]
                   /\ UNCHANGED <<db, writes, ai>>

NextRequests ==
    \/ Next
    \/ \E p \in SeqProcs : PostGenerate(p)
    \/ \E p \in SeqProcs : CreateSampleVideo(p)

SpecRequests == Init /\ [][NextRequests]_vars

\* ------------------------------------------------------ run_ai_video_job
\* what the provider's endpoint does with a request: answers 200 with a
\* video_url whose download works or fails, answers 200 without video_url,
\* answers 500, or cannot be reached
Servers == {"ok", "ok_download_fails", "no_url", "http_500", "unreachable"}

\* requests.post of the bundled requests package: the parameter named json
\* hides the json module, so json.dumps(json) is an attribute lookup on the
\* payload dict and raises AttributeError before any request is made
requests_post(has_json, server) ==
    IF has_json
    THEN [raised |-> TRUE, exc |-> "'dict' object has no attribute 'dumps'",
          sent |-> 0, status_code |-> 0, text |-> ""]
    ELSE IF server = "unreachable"
    THEN [raised |-> TRUE, exc |-> "<urlopen error>", sent |-> 1,
          status_code |-> 0, text |-> ""]
    ELSE [raised |-> FALSE, exc |-> "", sent |-> 1,
          status_code |-> IF server = "http_500" THEN 500 ELSE 200,
          text |-> server]

\* lines 90-94: the inactive provider
AiInactiveState(j) ==
    [j EXCEPT !.status = "failed",
              !.error_message = "Selected provider is inactive.",
              !.pc = "done"]

\* lines 97-99
AiRunningState(j) ==
    [j EXCEPT !.status = "running", !.error_message = "", !.pc = "ai_payload"]

\* run_ai_video_job is called for an existing job; its provider is active or
\* not and its endpoint behaves in one of the ways of Servers
AiStart ==
    /\ ai.pc \in {"idle", "done"}
    /\ ai.runs < MaxAttempts
    /\ \E active \in BOOLEAN, server \in Servers :
         LET j == [ai EXCEPT !.provider_active = active, !.server = server,
                             !.sent = 0, !.exc = "", !.runs = @ + 1]
         IN  ai' = IF active THEN AiRunningState(j) ELSE AiInactiveState(j)
    /\ UNCHANGED <<db, job, fs, att, attempts, writes, req>>

\* lines 101-104: headers and payload are built, the payload is saved
AiPayload ==
    /\ ai.pc = "ai_payload"
    /\ ai' = [ai EXCEPT !.request_payload = TRUE, !.pc = "ai_post"]
    /\ UNCHANGED <<db, job, fs, att, attempts, writes, req>>

\* lines 50-76 and 118-122: the download, the video row and the success save
AiSuccessState(j) ==
    [j EXCEPT !.video = "ready", !.status = "success", !.error_message = "",
              !.pc = "done"]

\* lines 106-122: the request, the saved raw response and its handling
AiPost ==
    /\ ai.pc = "ai_post"
    /\ LET r == requests_post(TRUE, ai.server) IN
         ai' = IF r.raised
               THEN [ai EXCEPT !.exc = r.exc, !.sent = @ + r.sent,
                               !.pc = "ai_except"]
               ELSE LET j == [ai EXCEPT !.sent = @ + r.sent,
                                        !.response_raw = r.text]
                    IN  IF r.status_code >= 400
                        THEN [j EXCEPT !.exc = "HTTP 500", !.pc = "ai_except"]
                        ELSE IF ai.server = "no_url"
                        THEN [j EXCEPT !.exc = "Response missing video_url field",
                                       !.pc = "ai_except"]
                        ELSE IF ai.server = "ok_download_fails"
                        THEN [j EXCEPT !.sent = @ + 1, !.exc = "HTTP 404",
                                       !.pc = "ai_except"]
                        ELSE AiSuccessState([j EXCEPT !.sent = @ + 1])
    /\ UNCHANGED <<db, job, fs, att, attempts, writes, req>>

\* lines 123-127: except Exception
AiFailureStateKeepStatus(j, exc) ==
    [j EXCEPT !.error_message = exc, !.pc = "done"]
AiFailureState(j, exc) ==
    [j EXCEPT !.status = "failed", !.error_message = exc, !.pc = "done"]

AiExcept ==
    /\ ai.pc = "ai_except"
    /\ ai' = AiFailureState(ai, ai.exc)
    /\ UNCHANGED <<db, job, fs, att, attempts, writes, req>>

NextAi ==
    \/ AiStart
    \/ AiPayload
    \/ AiPost
    \/ AiExcept

SpecAi == Init /\ [][NextAi]_vars

\* ------------------------------------------------ prompts of the lyric routine
\* Jobs as the forms can have stored them: a style key of the table or any
\* other string, an own style prompt or none, lyrics and extra instructions
\* or none.
PromptStyles == {"karaoke", "ai_avatar", "vaporwave", ""}
CustomStylePrompt == <<"slow zoom on a night city", "">>
LyricsTexts == {<<>>, <<"la la la", "">>}
ExtraPrompts == {<<>>, <<"no text overlays", "">>}

InitPrompt ==
    /\ db \in {[NewVideo EXCEPT !.style_prompt = sp] :
                 sp \in {<<>>, CustomStylePrompt}}
    /\ job \in [audio_ref : {TRUE}, bg_ref : {TRUE}, style : PromptStyles,
                lyrics : LyricsTexts, extra_prompt : ExtraPrompts]
    /\ fs = [audio |-> FALSE, bg |-> FALSE, gen |-> 0, view |-> 0]
    /\ att = [p \in Procs |-> IdleAttempt]
    /\ attempts = 0
    /\ writes = 0
    /\ req = NoRequest
    /\ ai = IdleAiJob

NextPrompt ==
    \E p \in SeqProcs :
        \/ Invoke(p, "lyric")
        \/ GenerateLyricVideoForInstance(p)

SpecPrompt == InitPrompt /\ [][NextPrompt]_vars

\* Two callers in generate_video_for_instance on the same row at once: each
\* loaded its own instance, nothing in the routine locks or re-reads the row.
NextConcurrent ==
    \E p \in Procs :
        \/ Invoke(p, "gv")
        \/ GenerateVideoForInstance(p)

\* generate_video_for_instance does not read the style; the concurrent runs
\* start from a job with an audio track, no background and one style.
InitConcurrent == Init /\ job.audio_ref /\ ~job.bg_ref /\ job.style = "karaoke"

SpecConcurrent == InitConcurrent /\ [][NextConcurrent]_vars

\* The writers do not read the job's inputs: the runs with writers start from
\* a job that has an audio track, a background and one style.
InitWrites == Init /\ job.audio_ref /\ job.bg_ref /\ job.style = "karaoke"

SpecWrites == InitWrites /\ [][NextWrites]_vars

\* ================================================================ properties
Finished(p) == att[p].pc = "done"
Service(p) == att[p].routine \in {"gv", "lyric"}
Failed(p) == att[p].exc # NoExc
AudioMissing == ~job.audio_ref \/ ~fs.audio
OutputSize(p) == IF att[p].routine = "view" THEN fs.view ELSE fs.gen

\* C1: once generate_video_for_instance or generate_lyric_video_for_instance
\* has finished, by returning or by raising, the persisted status is ready or
\* failed and never processing, whichever step failed.
C1_TerminalStatusAfterCall ==
    \A p \in Procs :
        (Finished(p) /\ Service(p)) =>
            /\ db.status \in {"ready", "failed"}
            /\ (Failed(p) <=> db.status = "failed")

C1_Witness ==
    \E p \in Procs :
        /\ Finished(p) /\ att[p].routine = "lyric"
        /\ att[p].outcome = "raised" /\ att[p].exc = MediaError
        /\ att[p].media_calls > 0
        /\ db.status = "failed"

\* C2 (as stated): every error raised during validation or composition becomes
\* a failed job plus a log entry, and both routines return the updated job
\* without letting the exception reach the caller.
C2_NoExceptionPropagates ==
    \A p \in Procs :
        (Finished(p) /\ Service(p) /\ Failed(p)) =>
            /\ db.status = "failed"
            /\ HasLine(db.generation_log, "Generation failed")
            /\ att[p].outcome = "returned"

\* C2 (amended): every error raised during validation or composition becomes
\* a persisted failed job plus a "Generation failed" log entry in both routines;
\* generate_video_for_instance then returns the updated job, while
\* generate_lyric_video_for_instance re-raises the exception to its caller.
C2_FailurePersistedThenReturnOrReraise ==
    \A p \in Procs :
        (Finished(p) /\ Service(p) /\ Failed(p)) =>
            /\ db.status = "failed"
            /\ HasLine(db.generation_log, "Generation failed")
            /\ att[p].mem = db
            /\ att[p].routine = "gv" => att[p].outcome = "returned"
            /\ att[p].routine = "lyric" => att[p].outcome = "raised"

C2_Witness ==
    \E p \in Procs :
        /\ Finished(p) /\ att[p].routine = "gv"
        /\ att[p].exc.kind = "Exception"
        /\ att[p].outcome = "returned"
        /\ db.status = "failed"

\* C3: a job whose audio reference is absent, or whose audio file does not
\* exist, ends with persisted status failed, error_code audio_missing,
\* progress 0 and no output file reference (checked for a job not generated
\* before and where the media library loaded, so that the audio check is the
\* step that fails).
C3_AudioMissingFailsWithCode ==
    \A p \in Procs :
        (Finished(p) /\ Service(p) /\ AudioMissing /\ att[p].exc # MoviepyMissing
           /\ att[p].pre_status = "draft") =>
            /\ db.status = "failed"
            /\ db.error_code = "audio_missing"
            /\ db.generation_progress = 0
            /\ db.video_file = ""

\* C4: in every generation attempt no media-library call precedes the first
\* persisted write, and that write sets status processing and progress 10,
\* clears error_message and error_code and persists the log line
\* "Starting video generation".
C4_FirstWriteIsProcessing ==
    \A p \in Procs :
        (InFlight(p) /\ Service(p)) =>
            /\ att[p].saves = 0 => att[p].media_calls = 0
            /\ att[p].saves = 1 =>
                 /\ db.status = "processing"
                 /\ db.generation_progress = 10
                 /\ db.error_message = "" /\ db.error_code = ""
                 /\ HasLine(db.generation_log, "Starting video generation")

\* C5: within one attempt the persisted writes are ordered processing, then
\* composition, then terminal: the write that persists ready or failed always
\* finds the persisted status processing, so no observer sees a job go from
\* draft, pending or an earlier terminal status straight to ready or failed;
\* and no media call is made before processing is persisted.
C5_ProcessingBeforeTerminal ==
    [][\A p \in Procs :
         /\ (att'[p].saves > att[p].saves /\ db'.status \in {"ready", "failed"}
               /\ db'.status # db.status) => db.status = "processing"
         /\ (att'[p].pc = "done" /\ att[p].pc # "done")
               => (db.status = "processing" /\ db'.status \in {"ready", "failed"})
         /\ att'[p].media_calls > att[p].media_calls => db.status = "processing"
      ]_vars

C5_Witness ==
    \E p \in Procs :
        /\ Finished(p) /\ att[p].routine = "lyric"
        /\ att[p].pre_status = "failed"
        /\ att[p].rendered
        /\ db.status = "ready"

AudioOnly(p) == att[p].routine = "gv" /\ job.audio_ref /\ fs.audio /\ ~job.bg_ref

C7_FallbackResolutionAndAspect ==
    \A p \in Procs :
        (Finished(p) /\ AudioOnly(p) /\ ~Failed(p)) =>
            /\ db.resolution = <<1280, "x", 720>>
            /\ db.aspect_ratio = <<16, ":", 9>>
            /\ db.file_size_bytes > 0

\* C8: when audio and background video are both present with durations
\* greater than 0, the composed duration and the recorded duration_seconds are
\* the minimum of the two, in generate_video_for_instance and in
\* generate_lyric_video_for_instance.
C8_MinimumOfDurations ==
    \A p \in Procs :
        (Finished(p) /\ Service(p) /\ ~Failed(p) /\ job.bg_ref
           /\ att[p].adur > 0 /\ att[p].bdur > 0) =>
            /\ att[p].duration = Min(att[p].adur, att[p].bdur)
            /\ db.duration_seconds = Min(att[p].adur, att[p].bdur) \div 10

\* the duration each routine computes from the clips (lines 170 and 322-323)
DurationComputed(p) == att[p].duration # NoneDur
ComputedDuration(p) ==
    IF att[p].routine = "gv" THEN Or0(att[p].adur) ELSE att[p].duration

C10_OutputMissingFails ==
    \A p \in Procs :
        Finished(p) =>
            /\ (att[p].rendered /\ OutputSize(p) = 0) =>
                 (db.status = "failed" /\ db.error_code = "output_missing")
            /\ db.status = "ready" => OutputSize(p) # 0

\* C11: on success the output reference, file size, duration, resolution,
\* aspect ratio, status ready and progress 100 reach the row in one save: no
\* persisted state has status ready with the output reference, the progress
\* 100 or the derived fields still missing.
C11_ReadyWrittenWithOutputs ==
    db.status = "ready" =>
        /\ db.video_file # ""
        /\ db.generation_progress = 100
        /\ db.duration_seconds # NoneInt
        /\ db.video_file = ServiceOutput =>
             /\ db.file_size_bytes > 0
             /\ db.resolution # <<>>
             /\ db.aspect_ratio # <<>>

C11_Witness ==
    \E p \in Procs :
        /\ Finished(p) /\ att[p].routine = "gv" /\ ~Failed(p)
        /\ att[p].saves = 2
        /\ db.status = "ready" /\ db.video_file = ServiceOutput
        /\ db.generation_progress = 100

\* C13: when loading the media library fails with the moviepy_missing error,
\* generate_video_for_instance does not fail the job but writes a placeholder
\* file and ends ready with progress 100, a positive file size and a log line
\* that mentions the placeholder video file.
C13_PlaceholderWhenMoviepyMissing ==
    \A p \in Procs :
        (Finished(p) /\ att[p].routine = "gv" /\ att[p].exc = MoviepyMissing) =>
            /\ db.status = "ready"
            /\ db.generation_progress = 100
            /\ db.file_size_bytes > 0
            /\ HasLine(db.generation_log, "placeholder video file")

AudioLoadFailed(p) ==
    /\ att[p].routine = "gv"
    /\ att[p].exc.kind # "VideoGenerationError" /\ Failed(p)
    /\ att[p].media_calls = 1 /\ ~DurationComputed(p)

\* C14: when any exception, not only VideoGenerationError, is raised while the
\* audio clip is loaded, generate_video_for_instance returns normally with
\* persisted status failed, the exception text in error_message and a
\* "Generation failed" line in generation_log.
C14_AudioLoadErrorHandled ==
    \A p \in Procs :
        (Finished(p) /\ AudioLoadFailed(p)) =>
            /\ att[p].outcome = "returned"
            /\ db.status = "failed"
            /\ db.error_message = att[p].exc.message
            /\ \E i \in 1..Len(db.generation_log) :
                 db.generation_log[i] = Line("Generation failed", att[p].exc.message)

C14_Witness ==
    \E p \in Procs :
        /\ Finished(p) /\ AudioLoadFailed(p)
        /\ att[p].exc = MediaError
        /\ db.error_message = "media call failed"

\* C18: every media handle opened during an attempt (audio clip, background
\* clip, text clip, final clip) is closed when the routine is left, on success
\* and on failure, partial construction included.
C18_AllHandlesClosed ==
    \A p \in Procs : Finished(p) => att[p].open = {}

ProcessingSaved(p) ==
    att[p].saves >= (IF att[p].routine = "lyric" THEN 2 ELSE 1)

\* C19: a generation attempt on a job in any status, ready or failed from an
\* earlier attempt included, restarts from a persisted processing state with
\* nothing of the pipeline done yet, and the terminal status and progress are
\* those of the latest attempt alone: failed with progress 0 when it fails,
\* ready with progress 100 when it succeeds.
C19_RestartsFromProcessing ==
    \A p \in Procs :
        /\ (InFlight(p) /\ ProcessingSaved(p)) =>
             (db.status = "processing" /\ db.generation_progress \in {0, 10})
        /\ (InFlight(p) /\ ~ProcessingSaved(p)) =>
             (att[p].media_calls = 0 /\ ~att[p].rendered /\ ~Failed(p)
                /\ db.status = att[p].pre_status)
        /\ (Finished(p) /\ Failed(p)) =>
             (db.status = "failed" /\ db.generation_progress = 0)
        /\ (Finished(p) /\ ~Failed(p)) =>
             (db.status = "ready" /\ db.generation_progress = 100
                /\ att[p].rendered)

C19_Witness ==
    \E p \in Procs :
        /\ Finished(p) /\ att[p].routine = "gv"
        /\ att[p].pre_status = "ready"
        /\ att[p].exc.code = "audio_missing"
        /\ db.status = "failed" /\ db.generation_progress = 0

\* C20: in generate_video_for_instance a background reference that is set
\* while its file does not exist fails the job with the background-missing
\* error, no clip is made in its place and the audio clip opened before the
\* check is closed; the solid-colour 1280x720 clip is made only for a job
\* without background reference.
C20_BackgroundMissingNoFallback ==
    \A p \in Procs :
        att[p].routine = "gv" =>
            /\ (Finished(p) /\ DurationComputed(p) /\ job.bg_ref /\ ~fs.bg) =>
                 /\ att[p].exc.code = "background_missing"
                 /\ db.status = "failed"
                 /\ db.error_message = "Background video is missing for this video."
                 /\ att[p].open = {} /\ att[p].bound = {"audio"}
                 /\ ~att[p].rendered
            /\ att[p].size = <<1280, 720>> => ~job.bg_ref

C20_Witness ==
    \E p \in Procs :
        /\ Finished(p) /\ att[p].routine = "gv"
        /\ job.bg_ref /\ ~fs.bg
        /\ att[p].exc.code = "background_missing"
        /\ att[p].bound = {"audio"} /\ att[p].open = {}

IsPrefix(s, t) == Len(s) <= Len(t) /\ SubSeq(t, 1, Len(s)) = s

NotNewline(t) == t # NL

\* the entries of a log text, newlines dropped
Entries(text) == SelectSeq(text, NotNewline)

\* entries and single newlines alternate, the text neither starts nor ends
\* with a newline
WellSeparated(text) ==
    /\ \A i \in 1..Len(text) : (text[i] = NL) <=> (i % 2 = 0)
    /\ Len(text) = 0 \/ Len(text) % 2 = 1

AppendedEntries(old, new) == Entries(SubSeq(new, Len(old) + 1, Len(new)))

\* the lines a routine adds when it ends
ClosingLines ==
    {"Generation failed", "Video generation completed successfully."}

\* C12: generation_log is append-only under update_status appends and
\* sequential generation attempts: after a step of either the previous text is
\* an unchanged prefix of the new text, the appended entries follow in call
\* order (the attempt's collected entries first, the posted entry for
\* update_status) and entries are separated by exactly one newline.
C12_LogAppendOnly ==
    [][ LET old == db.generation_log
            new == db'.generation_log
            added == AppendedEntries(old, new)
        IN  (writes' = writes \/ req'.op = "update_status") =>
              /\ IsPrefix(old, new)
              /\ WellSeparated(old) => WellSeparated(new)
              /\ (writes' = writes /\ new # old) =>
                   \E p \in Procs :
                     /\ InFlight(p)
                     /\ IsPrefix(att[p].log_entries, added)
                     /\ \A i \in (Len(att[p].log_entries) + 1)..Len(added) :
                          added[i][1] \in ClosingLines
              /\ (writes' # writes) =>
                   added = (IF req'.logged THEN req'.entry ELSE <<>>)
      ]_vars

C12_Witness ==
    /\ req.op = "update_status" /\ req.logged
    /\ Len(db.generation_log) >= 5
    /\ db.generation_log[1] = Line("Starting video generation", "")
    /\ db.generation_log[Len(db.generation_log) - 1] = NL
    /\ db.generation_log[Len(db.generation_log)] = Line("worker note", "")

\* C15: in every persisted state, whichever of the generation routines, the
\* update_status action and the two forms wrote the row, status is one of
\* draft, pending, processing, ready, failed, archived.
C15_StatusInChoices == db.status \in STATUS_CHOICES

\* C16: in every persisted state, whichever of the generation routines, the
\* update_status action, GeneratedVideoStatusForm and GeneratedVideoForm
\* wrote the row, generation_progress is unset or an integer in 0..100.
C16_ProgressUnsetOrInRange ==
    db.generation_progress = NoneInt \/ db.generation_progress \in 0..100

\* C17: whenever a sequential generation attempt ends with status ready the
\* persisted error_message and error_code are both empty, also when an
\* earlier attempt or an earlier update left them non-empty.
C17_NoErrorFieldsWhenReady ==
    \A p \in Procs :
        (Finished(p) /\ Service(p) /\ db.status = "ready") =>
            (db.error_message = "" /\ db.error_code = "")

\* C30: a failed attempt of generate_video_for_instance appends exactly one
\* "Generation failed" line to the persisted generation_log, after the lines
\* logged earlier in the attempt, which appear once each in logging order.
C30_OneFailureLinePerAttempt ==
    \A p \in Procs :
        (attempts = 1 /\ Finished(p) /\ att[p].routine = "gv" /\ Failed(p)) =>
            /\ CountLine(db.generation_log, "Generation failed") = 1
            /\ db.generation_log[1] = Line("Starting video generation", "")
            /\ db.generation_log[Len(db.generation_log)][1] = "Generation failed"
            /\ CountLine(db.generation_log, "Starting video generation") = 1

\* C27: in update_status a supplied generation_progress that parses as an
\* integer is clamped into 0..100 before the save and wins over the default
\* progress of the posted status; a supplied value that is no integer is
\* answered with 400 and leaves every persisted field unchanged, the status,
\* error_message and error_code of the same request included.
C27_ProgressClampedOrRejected ==
    [][ (writes' # writes /\ req'.op = "update_status") =>
          /\ req'.progress.kind = "int" =>
               /\ req'.code = 200
               /\ db'.generation_progress =
                    (IF req'.progress.val < 0 THEN 0
                     ELSE IF req'.progress.val > 100 THEN 100
                     ELSE req'.progress.val)
          /\ req'.progress.kind = "text" =>
               (req'.code = 400 /\ db' = db)
      ]_vars

C27_Witness ==
    /\ req.op = "update_status" /\ req.code = 200
    /\ req.status = "pending" /\ req.progress = [kind |-> "int", val |-> 150]
    /\ db.status = "pending" /\ db.generation_progress = 100

C27_WitnessRejected ==
    /\ req.op = "update_status" /\ req.code = 400
    /\ req.status = "bogus" /\ req.progress.kind = "text"
    /\ db = NewVideo

SucceededNow(p) == att[p].pc = "gv_finish" /\ att'[p].pc = "done"

\* C25: two interleaved invocations of generate_video_for_instance on one
\* job, one failing and one succeeding, can end with status ready next to the
\* failed invocation's error_message: the success save leaves error_message
\* as the last writer left it, and a second invocation can start while the
\* first is in flight.
C25_SuccessSaveKeepsErrorMessage ==
    [][ \A p \in Procs :
          SucceededNow(p) =>
            /\ db'.status = "ready"
            /\ db'.error_message = db.error_message
      ]_vars

C25_Witness ==
    \E p, q \in Procs :
        /\ p # q /\ Finished(p) /\ Finished(q)
        /\ Failed(p) /\ ~Failed(q)
        /\ db.status = "ready"
        /\ db.error_message = att[p].exc.message /\ db.error_message # ""

\* C26: with two interleaved attempts, each on its own in-memory copy, the
\* terminal save writes the whole generation_log from the attempt's copy (the
\* text it loaded plus its own lines), so lines the other attempt persisted
\* first can be missing from the final log.
C26_LogWrittenFromOwnCopy ==
    [][ \A p \in Procs :
          (att[p].pc \in {"gv_finish", "gv_except"} /\ att'[p].pc = "done") =>
            /\ db'.generation_log = att'[p].mem.generation_log
            /\ IsPrefix(att[p].mem.generation_log, db'.generation_log)
            /\ Entries(SubSeq(db'.generation_log,
                              Len(att[p].mem.generation_log) + 1,
                              Len(db'.generation_log)))[1]
                 = Line("Starting video generation", "")
      ]_vars

C26_Witness ==
    \E p, q \in Procs :
        /\ p # q /\ Finished(p) /\ Finished(q)
        /\ Failed(p) /\ ~Failed(q)
        /\ att[p].saves = 2
        /\ HasLine(att[p].mem.generation_log, "Generation failed")
        /\ ~HasLine(db.generation_log, "Generation failed")
        /\ db.generation_log = att[q].mem.generation_log

PromptBuilt == db.prompt_used # <<>>

\* C21: get_style_label and get_default_prompt_for_style are defined for
\* every string key: for a key of the style table they return that entry's
\* label and default prompt, for any other key get_style_label returns the
\* key itself and get_default_prompt_for_style the empty string.
C21_StyleResolversTotal ==
    /\ \A k \in PromptStyles \cup StyleKeys :
         IF k \in StyleKeys
         THEN /\ \E i \in 1..Len(STYLE_DEFINITIONS) :
                   /\ STYLE_DEFINITIONS[i].key = k
                   /\ get_style_label(k) = STYLE_DEFINITIONS[i].label
                   /\ get_default_prompt_for_style(k) =
                        STYLE_DEFINITIONS[i].default_prompt
         ELSE /\ get_style_label(k) = <<"key", k>>
              /\ get_default_prompt_for_style(k) = <<>>
    /\ PromptBuilt =>
         /\ db.prompt_used[1] = (IF job.style \in StyleKeys
                                 THEN <<"label", job.style>>
                                 ELSE <<"key", job.style>>)
         /\ db.style_prompt \in
              {CustomStylePrompt,
               IF job.style \in StyleKeys THEN <<"default_prompt", job.style>>
               ELSE <<>>}

C21_Witness ==
    /\ PromptBuilt /\ job.style = "vaporwave"
    /\ db.prompt_used[1] = <<"key", "vaporwave">>
    /\ db.style_prompt = <<>>

\* C22: build_final_prompt is a function of the job's style, style_prompt,
\* extra_prompt and the track's lyrics: it takes the job's own style_prompt
\* when non-empty and else the default prompt of job.style, the lyrics or
\* "No lyrics provided.", the extra prompt or "No additional instructions.",
\* and building it again from the same field values gives the same text.
C22_FinalPromptFromFields ==
    LET built == build_final_prompt(db, job) IN
        /\ built[2] = (IF db.style_prompt # <<>> THEN db.style_prompt
                       ELSE IF job.style \in StyleKeys
                            THEN <<"default_prompt", job.style>> ELSE <<>>)
        /\ built[3] = (IF job.lyrics # <<>> THEN job.lyrics
                       ELSE <<"No lyrics provided.", "">>)
        /\ built[4] = (IF job.extra_prompt # <<>> THEN job.extra_prompt
                       ELSE <<"No additional instructions.", "">>)
        /\ PromptBuilt => db.prompt_used = built

C22_Witness ==
    /\ PromptBuilt
    /\ db.style_prompt = CustomStylePrompt
    /\ db.prompt_used[2] = CustomStylePrompt
    /\ db.prompt_used[3] = <<"la la la", "">>
    /\ db.prompt_used[4] = <<"No additional instructions.", "">>

\* C23: a POST to videos/<pk>/generate/ invokes generate_video_for_instance for
\* the video and is answered with the redirect to the detail page.
C23_PostGenerateInvokesService ==
    req.op = "post_generate" =>
        /\ req.code = 302
        /\ \E p \in Procs : att[p].routine = "gv"

\* C24: when moviepy.editor cannot be imported the create_sample_video command
\* stops with a CommandError carrying the install hint and does not go on to
\* create or generate the sample video.
C24_CommandStopsWithoutMoviepy ==
    (req.op = "create_sample_video" /\ req.entry = MoviepyUnavailableWarning) =>
        /\ req.code = 1
        /\ \A p \in Procs : att[p].routine # "gv"

AiReturned == ai.pc = "done"

\* AIVideoJob.is_finished
is_finished(j) == j.status \in {"success", "failed"}

\* C28: run_ai_video_job never leaves the job pending or running: on return
\* the persisted status is success or failed, failed comes with a non-empty
\* error_message, and an inactive provider fails the job without any HTTP
\* request having been sent.
C28_AiJobFinishedOnReturn ==
    AiReturned =>
        /\ is_finished(ai)
        /\ ai.status = "failed" => ai.error_message # ""
        /\ ~ai.provider_active =>
             (ai.status = "failed" /\ ai.sent = 0
                /\ ai.error_message = "Selected provider is inactive.")

C28_Witness ==
    /\ AiReturned /\ ai.provider_active /\ ai.runs = 2
    /\ ai.status = "failed" /\ ai.error_message # ""
    /\ ai.request_payload

\* C29: for a job with an active provider whose endpoint answers the JSON
\* POST with a 2xx response carrying video_url and whose download works,
\* run_ai_video_job ends with status success, empty error_message and a
\* video in status ready; success never holds with the video unset.
C29_HealthyProviderSucceeds ==
    /\ (AiReturned /\ ai.provider_active /\ ai.server = "ok") =>
         /\ ai.status = "success"
         /\ ai.error_message = ""
         /\ ai.video = "ready"
    /\ ai.status = "success" => ai.video # "none"
====
